---- MODULE Spec2Model ----
(***************************************************************************)
(* Model of tools/perm-mask/test-perm-mask.py: a script that stats a fixed *)
(* list of paths and prints the rwx rendering of the owner, group and      *)
(* other permission bits of each, or a one-line error report.              *)
(***************************************************************************)
EXTENDS Integers, Sequences, FiniteSets, TLC

VARIABLES file_path, fs, it, pc, path, file_mode, user_permissions,
          group_permissions, other_permissions, e, mask, ret, out,
          run, prev_out

vars == <<file_path, fs, it, pc, path, file_mode, user_permissions,
          group_permissions, other_permissions, e, mask, ret, out,
          run, prev_out>>

(* ------------------------------ bounds --------------------------------- *)

\* width of the file modes enumerated exhaustively (st_mode is 16 bits wide)
ModeBits == 16

\* number of times the script is run against the same filesystem
MaxRuns == 2

\* permission_mask_to_string is called directly with -MaskBound..MaskBound
MaskBound == 40

(* ------------------------- values of the script ------------------------ *)

\* a local name that has not been assigned yet
Unbound == -1

UnboundPath == "<unbound>"

NoExc == [cls |-> "<none>", msg |-> <<>>]

NoRet == [raised |-> FALSE, value |-> <<>>, exc |-> NoExc]

\* the literal list bound to file_path
FilePaths ==
  << "D:\\gem\\YaeAchievement.exe",
     "D:\\gem\\Genshin Impact game\\GenshinImpact_Data\\Persistent\\AssetBundles\\blocks\\15\\34980066.blk",
     "D:\\gem\\Snap Hutao UIGF.json" >>

PathSet == {FilePaths[i] : i \in 1..Len(FilePaths)}

\* the masks of the main loop, 0o700, 0o070 and 0o007
OwnerMask == 448

GroupMask == 56

OtherMask == 7

OwnerShift == 6

GroupShift == 3

(* --------------------------- integer operators ------------------------- *)

RECURSIVE Pow2(_)
Pow2(n) == IF n = 0 THEN 1 ELSE 2 * Pow2(n - 1)

\* a & b on non-negative integers, bit by bit
RECURSIVE BitAnd(_, _)
BitAnd(a, b) ==
  IF a = 0 \/ b = 0 THEN 0
  ELSE (IF a % 2 = 1 /\ b % 2 = 1 THEN 1 ELSE 0)
         + 2 * BitAnd(a \div 2, b \div 2)

\* a >> n on non-negative integers
ShiftRight(a, n) == a \div Pow2(n)

(* ----------------------------- the filesystem -------------------------- *)

\* errno values stat can fail with
Errnos == {"ENOENT", "EACCES", "ENOTDIR", "EIO"}

\* OSError's constructor maps the errno to a subclass
ErrnoClass(en) ==
  CASE en = "ENOENT"  -> "FileNotFoundError"
    [] en = "EACCES"  -> "PermissionError"
    [] en = "ENOTDIR" -> "NotADirectoryError"
    [] OTHER          -> "OSError"

StrError(en) ==
  CASE en = "ENOENT"  -> "[Errno 2] No such file or directory: "
    [] en = "EACCES"  -> "[Errno 13] Permission denied: "
    [] en = "ENOTDIR" -> "[Errno 20] Not a directory: "
    [] OTHER          -> "[Errno 5] Input/output error: "

\* repr(p) of a path of the list: quoted, each backslash doubled
PyRepr(p) ==
  CASE p = "D:\\gem\\YaeAchievement.exe" ->
         "'D:\\\\gem\\\\YaeAchievement.exe'"
    [] p = "D:\\gem\\Snap Hutao UIGF.json" ->
         "'D:\\\\gem\\\\Snap Hutao UIGF.json'"
    [] OTHER ->
         "'D:\\\\gem\\\\Genshin Impact game\\\\GenshinImpact_Data\\\\Persistent\\\\AssetBundles\\\\blocks\\\\15\\\\34980066.blk'"

\* os.stat(p): the stat result, or the exception it raises
os_stat(p) ==
  IF fs[p].err = ""
    THEN [raised |-> FALSE, st_mode |-> fs[p].st_mode, exc |-> NoExc]
    ELSE [raised |-> TRUE, st_mode |-> Unbound,
          exc |-> [cls |-> ErrnoClass(fs[p].err),
                   msg |-> <<StrError(fs[p].err), PyRepr(p)>>]]

\* the base class of a built-in exception class
BaseOf(cls) ==
  CASE cls = "FileNotFoundError"  -> "OSError"
    [] cls = "PermissionError"    -> "OSError"
    [] cls = "NotADirectoryError" -> "OSError"
    [] cls = "OSError"            -> "Exception"
    [] cls = "IndexError"         -> "LookupError"
    [] cls = "LookupError"        -> "Exception"
    [] cls = "Exception"          -> "BaseException"
    [] OTHER                      -> "object"

RECURSIVE IsSubclass(_, _)
IsSubclass(cls, of) ==
  IF cls = of THEN TRUE
  ELSE IF cls = "object" THEN FALSE
  ELSE IsSubclass(BaseOf(cls), of)

\* the try statement without its except FileNotFoundError clause
ExceptClauseNoNotFound(cls) ==
  IF IsSubclass(cls, "Exception") THEN "except_Exception"
  ELSE "unhandled"

\* the try statement without its except Exception clause
ExceptClauseOnlyNotFound(cls) ==
  IF IsSubclass(cls, "FileNotFoundError") THEN "except_FileNotFoundError"
  ELSE "unhandled"

\* which except clause of the try statement takes an exception of class cls
ExceptClause(cls) ==
  IF IsSubclass(cls, "FileNotFoundError") THEN "except_FileNotFoundError"
  ELSE IF IsSubclass(cls, "Exception") THEN "except_Exception"
  ELSE "unhandled"

(* ----------------------- permission_mask_to_string --------------------- *)

\* the table with "-wx" and "r--" exchanged
permissionsSwapped ==
  << <<"-","-","-">>, <<"-","-","x">>, <<"-","w","-">>, <<"r","-","-">>,
     <<"-","w","x">>, <<"r","-","x">>, <<"r","w","-">>, <<"r","w","x">> >>

permissions ==
  << <<"-","-","-">>, <<"-","-","x">>, <<"-","w","-">>, <<"-","w","x">>,
     <<"r","-","-">>, <<"r","-","x">>, <<"r","w","-">>, <<"r","w","x">> >>

\* lst[i] of a Python list: negative indexes count from the end
ListIndex(lst, i) ==
  IF 0 <= i /\ i < Len(lst)
    THEN [raised |-> FALSE, value |-> lst[i + 1], exc |-> NoExc]
  ELSE IF 0 - Len(lst) <= i /\ i < 0
    THEN [raised |-> FALSE, value |-> lst[Len(lst) + i + 1], exc |-> NoExc]
  ELSE [raised |-> TRUE, value |-> <<>>,
        exc |-> [cls |-> "IndexError", msg |-> <<"list index out of range">>]]

permission_mask_to_string(m) == ListIndex(permissions, m)

(* ------------------------------ initial state -------------------------- *)

AllModes == 0 .. (Pow2(ModeBits) - 1)

\* regular file 0o100754, read-only file 0o100444, directory 0o040755,
\* setuid executable 0o104755, no bits at all, all sixteen bits
SampleModes == {33260, 33060, 16877, 35309, 0, 65535}

FsEntry(modes) ==
  {[err |-> "", st_mode |-> m] : m \in modes}
    \cup {[err |-> en, st_mode |-> Unbound] : en \in Errnos}

Start ==
  /\ file_path = FilePaths
  /\ it = 0
  /\ pc = "for"
  /\ path = UnboundPath
  /\ file_mode = Unbound
  /\ user_permissions = Unbound
  /\ group_permissions = Unbound
  /\ other_permissions = Unbound
  /\ e = NoExc
  /\ mask = Unbound
  /\ ret = NoRet
  /\ out = <<>>
  /\ run = 1
  /\ prev_out = <<>>

Init ==
  /\ fs \in [PathSet -> FsEntry(SampleModes)]
  /\ Start

(* --------------------------------- steps ------------------------------- *)

\* ForNext with the last path left out (range one too short)
ForNextDropLast ==
  /\ pc = "for"
  /\ IF it < Len(file_path) - 1
       THEN /\ it' = it + 1
            /\ path' = file_path[it + 1]
            /\ pc' = "stat"
       ELSE /\ pc' = "done"
            /\ UNCHANGED <<it, path>>
  /\ UNCHANGED <<file_path, fs, file_mode, user_permissions,
                 group_permissions, other_permissions, e, mask, ret, out,
                 run, prev_out>>

\* ForNext over an unordered collection: any path may come next
ForNextAnyOrder ==
  /\ pc = "for"
  /\ IF it < Len(file_path)
       THEN /\ it' = it + 1
            /\ path' \in {file_path[i] : i \in 1..Len(file_path)}
            /\ pc' = "stat"
       ELSE /\ pc' = "done"
            /\ UNCHANGED <<it, path>>
  /\ UNCHANGED <<file_path, fs, file_mode, user_permissions,
                 group_permissions, other_permissions, e, mask, ret, out,
                 run, prev_out>>

\* ForNext that consumes the list (path = file_path.pop(0))
ForNextPop ==
  /\ pc = "for"
  /\ IF file_path # <<>>
       THEN /\ it' = it + 1
            /\ path' = Head(file_path)
            /\ file_path' = Tail(file_path)
            /\ pc' = "stat"
       ELSE /\ pc' = "done"
            /\ UNCHANGED <<it, path, file_path>>
  /\ UNCHANGED <<fs, file_mode, user_permissions,
                 group_permissions, other_permissions, e, mask, ret, out,
                 run, prev_out>>

\* for path in file_path:
ForNext ==
  /\ pc = "for"
  /\ IF it < Len(file_path)
       THEN /\ it' = it + 1
            /\ path' = file_path[it + 1]
            /\ pc' = "stat"
       ELSE /\ pc' = "done"
            /\ UNCHANGED <<it, path>>
  /\ UNCHANGED <<file_path, fs, file_mode, user_permissions,
                 group_permissions, other_permissions, e, mask, ret, out,
                 run, prev_out>>

\* file_mode = os.stat(path).st_mode
Stat ==
  /\ pc = "stat"
  /\ LET r == os_stat(path) IN
       IF r.raised
         THEN /\ e' = r.exc
              /\ pc' = ExceptClause(r.exc.cls)
              /\ UNCHANGED file_mode
         ELSE /\ file_mode' = r.st_mode
              /\ pc' = "user_bits"
              /\ UNCHANGED e
  /\ UNCHANGED <<file_path, fs, it, path, user_permissions,
                 group_permissions, other_permissions, mask, ret, out,
                 run, prev_out>>

\* UserBits without the shift
UserBitsNoShift ==
  /\ pc = "user_bits"
  /\ user_permissions' = BitAnd(file_mode, OwnerMask)
  /\ pc' = "group_bits"
  /\ UNCHANGED <<file_path, fs, it, path, file_mode, group_permissions,
                 other_permissions, e, mask, ret, out, run, prev_out>>

\* user_permissions = (file_mode & 0o700) >> 6
UserBits ==
  /\ pc = "user_bits"
  /\ user_permissions' = ShiftRight(BitAnd(file_mode, OwnerMask), OwnerShift)
  /\ pc' = "group_bits"
  /\ UNCHANGED <<file_path, fs, it, path, file_mode, group_permissions,
                 other_permissions, e, mask, ret, out, run, prev_out>>

\* GroupBits shifted by the owner's shift
GroupBitsShift6 ==
  /\ pc = "group_bits"
  /\ group_permissions' = ShiftRight(BitAnd(file_mode, GroupMask), OwnerShift)
  /\ pc' = "other_bits"
  /\ UNCHANGED <<file_path, fs, it, path, file_mode, user_permissions,
                 other_permissions, e, mask, ret, out, run, prev_out>>

\* group_permissions = (file_mode & 0o070) >> 3
GroupBits ==
  /\ pc = "group_bits"
  /\ group_permissions' = ShiftRight(BitAnd(file_mode, GroupMask), GroupShift)
  /\ pc' = "other_bits"
  /\ UNCHANGED <<file_path, fs, it, path, file_mode, user_permissions,
                 other_permissions, e, mask, ret, out, run, prev_out>>

\* other_permissions = file_mode & 0o007
OtherBits ==
  /\ pc = "other_bits"
  /\ other_permissions' = BitAnd(file_mode, OtherMask)
  /\ pc' = "print_file"
  /\ UNCHANGED <<file_path, fs, it, path, file_mode, user_permissions,
                 group_permissions, e, mask, ret, out, run, prev_out>>

\* print(f"File: {path}")
PrintFile ==
  /\ pc = "print_file"
  /\ out' = Append(out, <<"File: ", path>>)
  /\ pc' = "print_user"
  /\ UNCHANGED <<file_path, fs, it, path, file_mode, user_permissions,
                 group_permissions, other_permissions, e, mask, ret,
                 run, prev_out>>

\* print(f"<label>{permission_mask_to_string(arg)}"), then go to next;
\* an exception raised by the call leaves the try body before the print
PrintPermissions(label, arg, next) ==
  LET r == permission_mask_to_string(arg) IN
    /\ mask' = arg
    /\ ret' = r
    /\ IF r.raised
         THEN /\ e' = r.exc
              /\ pc' = ExceptClause(r.exc.cls)
              /\ UNCHANGED out
         ELSE /\ out' = Append(out, <<label, r.value>>)
              /\ pc' = next
              /\ UNCHANGED e
    /\ UNCHANGED <<file_path, fs, it, path, file_mode, user_permissions,
                   group_permissions, other_permissions, run, prev_out>>

PrintUser ==
  /\ pc = "print_user"
  /\ PrintPermissions("  User permissions:  ", user_permissions, "print_group")

PrintGroup ==
  /\ pc = "print_group"
  /\ PrintPermissions("  Group permissions: ", group_permissions, "print_other")

PrintOther ==
  /\ pc = "print_other"
  /\ PrintPermissions("  Other permissions: ", other_permissions, "for")

\* except FileNotFoundError: print(f"File not found: {path}")
ExceptFileNotFoundError ==
  /\ pc = "except_FileNotFoundError"
  /\ out' = Append(out, <<"File not found: ", path>>)
  /\ pc' = "for"
  /\ UNCHANGED <<file_path, fs, it, path, file_mode, user_permissions,
                 group_permissions, other_permissions, e, mask, ret,
                 run, prev_out>>

\* ExceptException that leaves the loop after its report
ExceptExceptionBreak ==
  /\ pc = "except_Exception"
  /\ out' = Append(out, <<"Error processing file ", path, ": ">> \o e.msg)
  /\ e' = NoExc
  /\ pc' = "done"
  /\ UNCHANGED <<file_path, fs, it, path, file_mode, user_permissions,
                 group_permissions, other_permissions, mask, ret,
                 run, prev_out>>

\* except Exception as e: print(f"Error processing file {path}: {e}");
\* the name e is unbound again when the clause is left
ExceptException ==
  /\ pc = "except_Exception"
  /\ out' = Append(out, <<"Error processing file ", path, ": ">> \o e.msg)
  /\ e' = NoExc
  /\ pc' = "for"
  /\ UNCHANGED <<file_path, fs, it, path, file_mode, user_permissions,
                 group_permissions, other_permissions, mask, ret,
                 run, prev_out>>

\* one run of the script
Run ==
  \/ ForNext
  \/ Stat
  \/ UserBits
  \/ GroupBits
  \/ OtherBits
  \/ PrintFile
  \/ PrintUser
  \/ PrintGroup
  \/ PrintOther
  \/ ExceptFileNotFoundError
  \/ ExceptException

\* the script is started again: a fresh interpreter, the same filesystem
Rerun ==
  /\ pc = "done"
  /\ run < MaxRuns
  /\ run' = run + 1
  /\ prev_out' = out
  /\ file_path' = FilePaths
  /\ it' = 0
  /\ pc' = "for"
  /\ path' = UnboundPath
  /\ file_mode' = Unbound
  /\ user_permissions' = Unbound
  /\ group_permissions' = Unbound
  /\ other_permissions' = Unbound
  /\ e' = NoExc
  /\ mask' = Unbound
  /\ ret' = NoRet
  /\ out' = <<>>
  /\ UNCHANGED fs

Next ==
  \/ ForNext
  \/ Stat
  \/ UserBits
  \/ GroupBits
  \/ OtherBits
  \/ PrintFile
  \/ PrintUser
  \/ PrintGroup
  \/ PrintOther
  \/ ExceptFileNotFoundError
  \/ ExceptException
  \/ Rerun

Spec == Init /\ [][Next]_vars

\* the interpreter always executes the next statement of a run
FairSpec == Init /\ [][Next]_vars /\ WF_vars(Run)

(* ---------------- one run over every file mode of ModeBits bits -------- *)

\* the first path exists with any mode, the second is absent, the third
\* cannot be read
InitModes ==
  /\ fs \in {[p \in PathSet |->
                IF p = FilePaths[1] THEN [err |-> "", st_mode |-> m]
                ELSE IF p = FilePaths[2]
                  THEN [err |-> "ENOENT", st_mode |-> Unbound]
                ELSE [err |-> "EIO", st_mode |-> Unbound]] : m \in AllModes}
  /\ Start

SpecModes == InitModes /\ [][Run]_vars

(* ---------------- permission_mask_to_string called directly ------------ *)

InitMask ==
  /\ fs = [p \in PathSet |-> [err |-> "ENOENT", st_mode |-> Unbound]]
  /\ file_path = FilePaths
  /\ it = 0
  /\ pc = "call"
  /\ path = UnboundPath
  /\ file_mode = Unbound
  /\ user_permissions = Unbound
  /\ group_permissions = Unbound
  /\ other_permissions = Unbound
  /\ e = NoExc
  /\ mask \in (0 - MaskBound) .. MaskBound
  /\ ret = NoRet
  /\ out = <<>>
  /\ run = 1
  /\ prev_out = <<>>

\* permission_mask_to_string(mask) returns or raises
CallMask ==
  /\ pc = "call"
  /\ ret' = permission_mask_to_string(mask)
  /\ pc' = IF ret'.raised THEN "raised" ELSE "returned"
  /\ UNCHANGED <<file_path, fs, it, path, file_mode, user_permissions,
                 group_permissions, other_permissions, e, mask, out,
                 run, prev_out>>

NextMask == CallMask

SpecMask == InitMask /\ [][NextMask]_vars

(* ------------------------- reading the output -------------------------- *)

\* bit k of a non-negative integer
Bit(m, k) == (m \div Pow2(k)) % 2

\* the rwx rendering of bits lo+2, lo+1, lo of m
Rwx(m, lo) ==
  << IF Bit(m, lo + 2) = 1 THEN "r" ELSE "-",
     IF Bit(m, lo + 1) = 1 THEN "w" ELSE "-",
     IF Bit(m, lo) = 1 THEN "x" ELSE "-" >>

\* the reports a sequence of output lines consists of, in order; a line
\* that belongs to no complete report ends the reading with "malformed"
RECURSIVE ParseReports(_)
ParseReports(lines) ==
  IF lines = <<>> THEN <<>>
  ELSE LET h == Head(lines) IN
    IF h[1] = "File: "
      THEN IF /\ Len(h) = 2
              /\ Len(lines) >= 4
              /\ lines[2][1] = "  User permissions:  "
              /\ lines[3][1] = "  Group permissions: "
              /\ lines[4][1] = "  Other permissions: "
             THEN <<[kind |-> "ok", path |-> h[2]]>>
                    \o ParseReports(SubSeq(lines, 5, Len(lines)))
             ELSE <<[kind |-> "malformed", path |-> h[2]]>>
    ELSE IF h[1] = "File not found: " /\ Len(h) = 2
      THEN <<[kind |-> "notfound", path |-> h[2]]>> \o ParseReports(Tail(lines))
    ELSE IF h[1] = "Error processing file " /\ Len(h) >= 4 /\ h[3] = ": "
      THEN <<[kind |-> "error", path |-> h[2]]>> \o ParseReports(Tail(lines))
    ELSE <<[kind |-> "malformed", path |-> ""]>>

\* the kind of report the filesystem calls for
Outcome(p) ==
  IF fs[p].err = "" THEN "ok"
  ELSE IF fs[p].err = "ENOENT" THEN "notfound"
  ELSE "error"

\* the indexes of the output lines that name path p
LinesNaming(p) ==
  {j \in 1..Len(out) :
     /\ out[j][1] \in {"File: ", "File not found: ", "Error processing file "}
     /\ out[j][2] = p}

AtLoopHead == pc \in {"for", "done"}

N == Len(FilePaths)

(* --------------------------------- claims ------------------------------ *)

\* C1: a run over N paths with any mix of outcomes emits exactly N reports,
\* the i-th report is about the i-th path and is of the kind its stat
\* outcome calls for, and the output reads as whole reports one after the
\* other (no line of one report inside another).
C1_ReportsInOrder ==
  AtLoopHead =>
    LET r == ParseReports(out) IN
      /\ Len(r) = it
      /\ pc = "done" => Len(r) = N
      /\ \A i \in 1..Len(r) :
           /\ r[i].path = FilePaths[i]
           /\ r[i].kind = Outcome(FilePaths[i])

C1_Witness ==
  /\ pc = "done"
  /\ Len(ParseReports(out)) = N
  /\ {Outcome(p) : p \in PathSet} = {"ok", "notfound", "error"}

\* C2: after a successful stat with mode m the block printed is the header
\* 'File: <path>', then the User line with bits 6-8 of m, the Group line
\* with bits 3-5 and the Other line with bits 0-2, in this order; owner
\* bits 7, group bits 5, other bits 4 print rwx, r-x, r--.
C2_SuccessBlock ==
  (pc = "for" /\ it >= 1 /\ fs[path].err = "") =>
    LET m == fs[path].st_mode
        n == Len(out)
    IN /\ n >= 4
       /\ SubSeq(out, n - 3, n) =
            << <<"File: ", path>>,
               <<"  User permissions:  ", Rwx(m, 6)>>,
               <<"  Group permissions: ", Rwx(m, 3)>>,
               <<"  Other permissions: ", Rwx(m, 0)>> >>
       /\ (m % 512 = 492) =>
            /\ out[n - 2][2] = <<"r", "w", "x">>
            /\ out[n - 1][2] = <<"r", "-", "x">>
            /\ out[n][2] = <<"r", "-", "-">>

C2_Witness ==
  /\ pc = "for"
  /\ it = 1
  /\ fs[path].err = ""
  /\ fs[path].st_mode = 35308
  /\ Len(out) = 4
  /\ out[2] = <<"  User permissions:  ", <<"r", "w", "x">> >>

\* C3: for m in 0..7 permission_mask_to_string(m) returns the three
\* characters r/w/x for bits 2/1/0 of m that are set and '-' for the
\* others, and the eight results are pairwise distinct.
C3_Table ==
  /\ (pc \in {"returned", "raised"} /\ mask \in 0..7) =>
       /\ pc = "returned"
       /\ ~ret.raised
       /\ Len(ret.value) = 3
       /\ ret.value[1] = (IF Bit(mask, 2) = 1 THEN "r" ELSE "-")
       /\ ret.value[2] = (IF Bit(mask, 1) = 1 THEN "w" ELSE "-")
       /\ ret.value[3] = (IF Bit(mask, 0) = 1 THEN "x" ELSE "-")
  /\ \A a, b \in 0..7 :
       a # b => permission_mask_to_string(a).value
                  # permission_mask_to_string(b).value

C3_Witness ==
  /\ pc = "returned"
  /\ mask = 3
  /\ ret.value = <<"-", "w", "x">>

\* C4: a path whose stat raises FileNotFoundError gets exactly one line,
\* 'File not found: <path>', no 'File:' header and no permission line, and
\* the exception does not leave the loop unhandled.
C4_NotFound ==
  /\ pc # "unhandled"
  /\ AtLoopHead =>
       \A i \in 1..it :
         fs[FilePaths[i]].err = "ENOENT" =>
           LET r == ParseReports(out) IN
             /\ Len(r) >= i
             /\ r[i] = [kind |-> "notfound", path |-> FilePaths[i]]
             /\ Cardinality(LinesNaming(FilePaths[i])) = 1
             /\ \A j \in LinesNaming(FilePaths[i]) :
                  out[j] = <<"File not found: ", FilePaths[i]>>

C4_Witness ==
  /\ pc = "for"
  /\ it = 2
  /\ fs[FilePaths[1]].err = ""
  /\ fs[FilePaths[2]].err = "ENOENT"
  /\ out[Len(out)] = <<"File not found: ", FilePaths[2]>>

\* C5: a path whose stat fails for another reason gets exactly one line
\* 'Error processing file <path>: <description>', no 'File:' header and no
\* permission line, and the loop then goes on with the next path.
C5_StateOtherError ==
  /\ pc # "unhandled"
  /\ pc = "done" => it = N
  /\ AtLoopHead =>
       \A i \in 1..it :
         fs[FilePaths[i]].err \notin {"", "ENOENT"} =>
           LET r == ParseReports(out) IN
             /\ Len(r) >= i
             /\ r[i] = [kind |-> "error", path |-> FilePaths[i]]
             /\ Cardinality(LinesNaming(FilePaths[i])) = 1
             /\ \A j \in LinesNaming(FilePaths[i]) :
                  out[j] = <<"Error processing file ", FilePaths[i], ": ",
                             StrError(fs[FilePaths[i]].err),
                             PyRepr(FilePaths[i])>>

C5_StepOtherError ==
  /\ pc = "except_Exception" => (pc' = "for" /\ it' = it)
  /\ (pc = "for" /\ it < N) => (pc' = "stat" /\ path' = FilePaths[it + 1])

C5_OtherError == [](C5_StateOtherError) /\ [][C5_StepOtherError]_vars

C5_Witness ==
  /\ pc = "stat"
  /\ it = 2
  /\ fs[FilePaths[1]].err = "EACCES"
  /\ Len(out) = 1
  /\ out[1][1] = "Error processing file "

\* C6: under every assignment of stat outcomes the run reaches its end
\* state with every path processed; no failure ends it early or leaves it
\* in a failure end state.
C6_Terminates ==
  /\ <>(pc = "done" /\ it = N /\ run = 1)
  /\ [](pc # "unhandled")
  /\ [](pc = "done" => (it = N /\ Len(ParseReports(out)) = N))

C6_Witness ==
  /\ pc = "done"
  /\ run = 1
  /\ it = N
  /\ \A p \in PathSet : fs[p].err # ""
  /\ \E p \in PathSet : fs[p].err = "EIO"

\* C7: a second run against the same filesystem state prints the same
\* lines as the first: at every point of the later run the output is a
\* prefix of the earlier run's output, and at its end the two are equal.
C7_Deterministic ==
  run > 1 =>
    /\ Len(out) <= Len(prev_out)
    /\ out = SubSeq(prev_out, 1, Len(out))
    /\ pc = "done" => out = prev_out

C7_Witness ==
  /\ run = 2
  /\ pc = "done"
  /\ Len(out) = 6
  /\ out = prev_out

\* C8: no step changes the filesystem state or the configured list of
\* paths.
C8_Frame == [][fs' = fs /\ file_path' = file_path]_vars

C8_Witness ==
  /\ pc = "user_bits"
  /\ it = N
  /\ file_mode = fs[path].st_mode
  /\ file_path = FilePaths

\* C9: the three values the main loop passes to permission_mask_to_string
\* lie in 0..7 for every mode, so the lookup never raises and a successful
\* stat never ends in the 'Error processing file' branch.
C9_InRange ==
  /\ pc = "print_user" => user_permissions \in 0..7
  /\ pc = "print_group" => group_permissions \in 0..7
  /\ pc = "print_other" => other_permissions \in 0..7
  /\ ~ret.raised
  /\ e.cls # "IndexError"
  /\ pc = "except_Exception" => fs[path].err # ""

C9_Witness ==
  /\ pc = "for"
  /\ it = 1
  /\ file_mode = Pow2(ModeBits) - 1
  /\ mask = 7
  /\ ret.value = <<"r", "w", "x">>

\* C10: a call of permission_mask_to_string with an integer outside 0..7
\* raises an error and never returns one of the rwx strings.
C10_FailsLoudly ==
  (pc \in {"returned", "raised"} /\ mask \notin 0..7) =>
    /\ pc = "raised"
    /\ ret.raised
    /\ ret.value \notin {permissions[i] : i \in 1..Len(permissions)}

====
